---- MODULE Spec2Model ----
(***************************************************************************)
(* vibe-qr-api: the quota tracker and request admission of                *)
(* src/app/main.py, and the render pipeline, SVG colorizer and bulk       *)
(* orchestrator of src/main.py.                                           *)
(*                                                                         *)
(* Spec       : src/app/main.py, requests to /generate and /generate-svg  *)
(*              handled by coroutines of one event loop.                  *)
(* SpecRender : src/main.py, one request to /generate, /generate-svg or   *)
(*              /bulk after the other.                                    *)
(***************************************************************************)
EXTENDS Integers, Sequences, FiniteSets, TLC

(***************************************************************************)
(* Bounds of the model.                                                    *)
(***************************************************************************)
\* Wall-clock instants are 0..MaxTime (datetime.utcnow() in model ticks).
MaxTime == 3
\* FREE_TIER_LIMIT is read from the environment: every value 0..MaxLimit.
MaxLimit == 2

(***************************************************************************)
(* Program constants and input domains of src/app/main.py.                 *)
(***************************************************************************)
\* timedelta(days=1), in model ticks.
RATE_LIMIT_WINDOW == 2

\* The request coroutines that can exist at the same time; the event loop runs
\* one of them at a time, so two are enough to have one wait for the other.
Reqs == {"r1", "r2"}
NoReq == "none"

\* A header that is absent (Header(None), headers.get(...) returning None).
NoHeader == "<absent>"
\* Values of the X-API-Key header, and of the PRO_API_KEY environment variable.
ApiKeys == {NoHeader, "pro-secret", "guess"}
Secrets == {"", "pro-secret"}
\* request.client.host of the connection, and x-forwarded-for as its hops.
PeerHost == "10.0.0.1"
ForwardedFor == {<<>>, <<"10.0.0.2">>, <<"10.0.0.2", "10.0.0.9">>}

\* Python truthiness of an Optional[str].
Truthy(s) == s # NoHeader /\ s # ""

\* get_client_ip: the first hop of x-forwarded-for when present, else the peer.
get_client_ip(forwarded, host) ==
    IF forwarded # <<>> THEN forwarded[1] ELSE host

\* is_pro = bool(x_api_key and PRO_API_KEY and x_api_key == PRO_API_KEY)
IsPro(x_api_key, secret) ==
    Truthy(x_api_key) /\ Truthy(secret) /\ x_api_key = secret

\* Faulty variant of KeepRecent: a timestamp exactly one window old is kept.
KeepRecentInclusive(ts, cutoff) == ts >= cutoff

\* [ts for ts in entries if ts > cutoff]
KeepRecent(ts, cutoff) == ts > cutoff
Prune(entries, cutoff) == SelectSeq(entries, LAMBDA ts : KeepRecent(ts, cutoff))

\* Faulty variant of AtLimit: off by one.
AtLimitOffByOne(entries, limit) == Len(entries) > limit

\* len(rate_limit_store[client_id]) >= FREE_TIER_LIMIT
AtLimit(entries, limit) == Len(entries) >= limit

\* max(0, FREE_TIER_LIMIT - len(recent))
RemainingOf(recent, limit) ==
    IF limit - Len(recent) > 0 THEN limit - Len(recent) ELSE 0

\* get_remaining_requests, on the client's record and the clock it reads.
get_remaining_requests(entries, is_pro, clock_now, limit) ==
    IF is_pro THEN -1
    ELSE RemainingOf(Prune(entries, clock_now - RATE_LIMIT_WINDOW), limit)

\* "X-RateLimit-Remaining": str(remaining) if remaining >= 0 else "unlimited"
RemainingHeader(remaining) ==
    IF remaining >= 0 THEN ToString(remaining) ELSE "unlimited"

\* "X-RateLimit-Limit": str(FREE_TIER_LIMIT) if not is_pro else "unlimited"
LimitHeader(is_pro, limit) ==
    IF ~is_pro THEN ToString(limit) ELSE "unlimited"

(***************************************************************************)
(* State.                                                                  *)
(***************************************************************************)
VARIABLES
    FREE_TIER_LIMIT,   \* int(os.getenv("FREE_TIER_LIMIT", "20"))
    PRO_API_KEY,       \* os.getenv("PRO_API_KEY", "")
    clock,             \* what datetime.utcnow() returns
    rate_limit_store,  \* defaultdict(list): client id -> admitted timestamps
    req,               \* per coroutine: position, arguments, locals, response
    running,           \* the coroutine the event loop is executing, or NoReq
    admitted,          \* history: per client, the timestamps check_rate_limit
                       \* recorded that a later admission can still be within
                       \* RATE_LIMIT_WINDOW of
    call               \* src/main.py: the request being served, the locals of
                       \* its handler and of generate_qr_image / generate_qr_svg

vars == <<FREE_TIER_LIMIT, PRO_API_KEY, clock, rate_limit_store, req, running,
          admitted, call>>

Clients == {PeerHost} \cup {f[1] : f \in ForwardedFor \ {<<>>}}

Idle ==
    [pc |-> "idle", client_id |-> "", x_api_key |-> NoHeader,
     is_pro |-> FALSE, now |-> 0, kept |-> <<>>, allowed |-> FALSE,
     status |-> 0, remaining |-> 0, hRemaining |-> "", hLimit |-> "",
     \* history: the store when the handler began, the client's record and the
     \* admissions still inside the window when check_rate_limit read them,
     \* whether the rendering code ran
     storeAtEntry |-> <<>>, pre |-> <<>>, inWindow |-> 0, rendered |-> FALSE]

\* rate_limit_store[c] of a defaultdict(list): a missing key reads as [] ...
Entries(c) == IF c \in DOMAIN rate_limit_store THEN rate_limit_store[c] ELSE <<>>
\* ... and is inserted by the read; an assignment sets it.
StoreWith(c, entries) ==
    [k \in DOMAIN rate_limit_store \cup {c} |->
        IF k = c THEN entries ELSE rate_limit_store[k]]

\* Faulty variant of Yields: the handlers run on threads, or await between steps.
YieldsAnywhere(pc) == TRUE

\* The handler bodies hold no await: a coroutine never yields the event loop
\* between its first line and its response.
Yields(pc) == FALSE

\* The event loop after coroutine r moved to position pc.
Loop(r, pc) == IF pc \in {"idle", "pending"} \/ Yields(pc) THEN NoReq ELSE r

Init ==
    /\ FREE_TIER_LIMIT \in 0..MaxLimit
    /\ PRO_API_KEY \in Secrets
    /\ clock = 0
    /\ rate_limit_store = <<>>
    /\ req = [r \in Reqs |-> Idle]
    /\ running = NoReq
    /\ admitted = [c \in Clients |-> <<>>]
    /\ call = [pc |-> "off"]

\* What no step of src/app/main.py changes: its configuration, and the
\* service of src/main.py.
Config == <<FREE_TIER_LIMIT, PRO_API_KEY, call>>

\* The coroutines inside check_rate_limit, holding the `now` they read.
InCheck(rq) ==
    {r \in Reqs : rq[r].pc \in {"crl_read", "crl_store", "crl_limit", "crl_append"}}

\* No later admission carries a timestamp below this one: the clock does not
\* run backwards, and a coroutine inside check_rate_limit records its `now`.
Earliest(rq, clk) ==
    LET ts == {clk} \cup {rq[r].now : r \in InCheck(rq)}
    IN  CHOOSE t \in ts : \A u \in ts : t <= u

\* The history after a step: what is a whole window before every later
\* admission is dropped.
History(log) ==
    LET horizon == Earliest(req', clock') - RATE_LIMIT_WINDOW
    IN  [c \in Clients |-> SelectSeq(log[c], LAMBDA ts : ts > horizon)]

\* Time passes, whatever the event loop is doing.
Tick ==
    /\ clock < MaxTime
    /\ clock' = clock + 1
    /\ UNCHANGED <<Config, rate_limit_store, req, running>>
    /\ admitted' = History(admitted)

Goto(r, fields) == req' = [req EXCEPT ![r] = fields]

\* A request reaches the server: its coroutine exists and waits for the event
\* loop, whatever the loop is running; the handler reads the request when it
\* starts. (The coroutines are interchangeable: r2 is taken when r1 is in use.)
Arrive(r) ==
    /\ req[r].pc = "idle"
    /\ r = "r1" \/ req["r1"].pc # "idle"
    /\ Goto(r, [Idle EXCEPT !.pc = "pending"])
    /\ UNCHANGED <<Config, clock, rate_limit_store, running>>
    /\ admitted' = History(admitted)

\* Faulty variant of ProBypass: the early return is missing.
ProBypassMissing(is_pro) == FALSE

\* check_rate_limit, lines 78-79: if is_pro: return True
ProBypass(is_pro) == is_pro

\* The event loop enters the handler of a waiting request: generate_qr_png /
\* generate_qr_svg, lines 136-139 and 192-195, and the call's first lines,
\* check_rate_limit 78-82.
Start(r) ==
    /\ running = NoReq
    /\ req[r].pc = "pending"
    /\ \E key \in ApiKeys, fwd \in ForwardedFor :
         LET pro == IsPro(key, PRO_API_KEY)
             args == [req[r] EXCEPT !.x_api_key = key, !.is_pro = pro,
                                    !.client_id = get_client_ip(fwd, PeerHost),
                                    !.storeAtEntry = rate_limit_store]
         IN  IF ProBypass(pro)
             THEN Goto(r, [args EXCEPT !.pc = "render", !.allowed = TRUE])
             ELSE Goto(r, [args EXCEPT !.pc = "crl_read", !.now = clock])
    /\ running' = Loop(r, req'[r].pc)
    /\ UNCHANGED <<Config, clock, rate_limit_store>>
    /\ admitted' = History(admitted)

Turn(r, pc) == req[r].pc = pc /\ running \in {NoReq, r}

\* check_rate_limit, lines 85-87: the comprehension is evaluated ...
CrlRead(r) ==
    /\ Turn(r, "crl_read")
    /\ LET c == req[r].client_id IN
       /\ Goto(r, [req[r] EXCEPT !.pc = "crl_store", !.pre = Entries(c),
                     !.inWindow = Len(Prune(admitted[c],
                                            req[r].now - RATE_LIMIT_WINDOW)),
                     !.kept = Prune(Entries(c), req[r].now - RATE_LIMIT_WINDOW)])
       /\ rate_limit_store' = StoreWith(c, Entries(c))
    /\ running' = Loop(r, "crl_store")
    /\ UNCHANGED <<Config, clock>>
    /\ admitted' = History(admitted)

\* ... and assigned.
CrlStore(r) ==
    /\ Turn(r, "crl_store")
    /\ rate_limit_store' = StoreWith(req[r].client_id, req[r].kept)
    /\ Goto(r, [req[r] EXCEPT !.pc = "crl_limit"])
    /\ running' = Loop(r, "crl_limit")
    /\ UNCHANGED <<Config, clock>>
    /\ admitted' = History(admitted)

\* Faulty variant of CrlLimit: the request is recorded before the limit is checked.
CrlLimitRecording(r) ==
    /\ Turn(r, "crl_limit")
    /\ LET c == req[r].client_id IN
       IF AtLimit(Entries(c), FREE_TIER_LIMIT)
       THEN /\ Goto(r, [req[r] EXCEPT !.pc = "done", !.allowed = FALSE,
                                      !.status = 429])
            /\ rate_limit_store' = StoreWith(c, Append(Entries(c), req[r].now))
       ELSE /\ Goto(r, [req[r] EXCEPT !.pc = "crl_append"])
            /\ UNCHANGED rate_limit_store
    /\ running' = Loop(r, req'[r].pc)
    /\ UNCHANGED <<Config, clock>>
    /\ admitted' = History(admitted)

\* check_rate_limit, lines 90-91, and on False the handler's lines 139-143 /
\* 195-199: HTTPException(status_code=429).
CrlLimit(r) ==
    /\ Turn(r, "crl_limit")
    /\ IF AtLimit(Entries(req[r].client_id), FREE_TIER_LIMIT)
       THEN Goto(r, [req[r] EXCEPT !.pc = "done", !.allowed = FALSE,
                                   !.status = 429])
       ELSE Goto(r, [req[r] EXCEPT !.pc = "crl_append"])
    /\ running' = Loop(r, req'[r].pc)
    /\ UNCHANGED <<Config, clock, rate_limit_store>>
    /\ admitted' = History(admitted)

\* check_rate_limit, lines 94-95; the handler goes on to its try block.
CrlAppend(r) ==
    /\ Turn(r, "crl_append")
    /\ LET c == req[r].client_id IN
       rate_limit_store' = StoreWith(c, Append(Entries(c), req[r].now))
    /\ Goto(r, [req[r] EXCEPT !.pc = "render", !.allowed = TRUE])
    /\ running' = Loop(r, "render")
    /\ UNCHANGED <<Config, clock>>
    /\ admitted' = History([admitted EXCEPT ![req[r].client_id] =
                                                   Append(@, req[r].now)])

\* Faulty variant of OnRenderError: a failed render gives the quota back.
RefundOnRenderError(r) ==
    LET c == req[r].client_id IN
    IF req[r].is_pro \/ Entries(c) = <<>> THEN rate_limit_store
    ELSE StoreWith(c, SubSeq(Entries(c), 1, Len(Entries(c)) - 1))

\* What the except clause of the handler leaves in the store (lines 172-173,
\* 229-230): it raises HTTPException(status_code=400) and touches nothing.
OnRenderError(r) == rate_limit_store

\* The handler, lines 145-159 / 201-216: the qrcode library builds and saves
\* the image, or raises (the data does not fit a version 40 symbol).
Render(r) ==
    /\ Turn(r, "render")
    /\ \E ok \in BOOLEAN :
          IF ok
          THEN /\ Goto(r, [req[r] EXCEPT !.pc = "respond", !.rendered = TRUE])
               /\ UNCHANGED rate_limit_store
          ELSE /\ Goto(r, [req[r] EXCEPT !.pc = "done", !.rendered = TRUE,
                                         !.status = 400])
               /\ rate_limit_store' = OnRenderError(r)
    /\ running' = Loop(r, req'[r].pc)
    /\ UNCHANGED <<Config, clock>>
    /\ admitted' = History(admitted)

\* The handler, lines 161-171 / 218-228: get_remaining_requests, the headers,
\* the response.
Respond(r) ==
    /\ Turn(r, "respond")
    /\ LET c == req[r].client_id
           remaining == get_remaining_requests(
                            Entries(c), req[r].is_pro, clock, FREE_TIER_LIMIT)
       IN
       /\ Goto(r, [req[r] EXCEPT !.pc = "done", !.status = 200,
                     !.remaining = remaining,
                     !.hRemaining = RemainingHeader(remaining),
                     !.hLimit = LimitHeader(req[r].is_pro, FREE_TIER_LIMIT)])
       /\ rate_limit_store' =
            IF req[r].is_pro THEN rate_limit_store ELSE StoreWith(c, Entries(c))
    /\ running' = Loop(r, "done")
    /\ UNCHANGED <<Config, clock>>
    /\ admitted' = History(admitted)

\* The response is sent and the coroutine ends.
Return(r) ==
    /\ Turn(r, "done")
    /\ Goto(r, Idle)
    /\ running' = Loop(r, "idle")
    /\ UNCHANGED <<Config, clock, rate_limit_store>>
    /\ admitted' = History(admitted)

Next ==
    \/ Tick
    \/ \E r \in Reqs : Arrive(r)
    \/ \E r \in Reqs : Start(r)
    \/ \E r \in Reqs : CrlRead(r)
    \/ \E r \in Reqs : CrlStore(r)
    \/ \E r \in Reqs : CrlLimit(r)
    \/ \E r \in Reqs : CrlAppend(r)
    \/ \E r \in Reqs : Render(r)
    \/ \E r \in Reqs : Respond(r)
    \/ \E r \in Reqs : Return(r)

Spec == Init /\ [][Next]_vars

(***************************************************************************)
(* Properties of the quota tracker (src/app/main.py), under Spec.          *)
(***************************************************************************)
\* The handler of r has begun / check_rate_limit has returned to it.
Started(r) == req[r].pc \notin {"idle", "pending"}
Checked(r) == req[r].pc \in {"render", "respond", "done"}

\* The request is not granted pro status: no X-API-Key, a key that does not
\* match, or an empty server secret.
NotPro(r) ==
    \/ req[r].x_api_key = NoHeader
    \/ req[r].x_api_key # PRO_API_KEY
    \/ PRO_API_KEY = ""

\* The request carries exactly the non-empty configured PRO_API_KEY.
ProKey(r) == req[r].x_api_key = PRO_API_KEY /\ PRO_API_KEY # ""

CutoffOf(r) == req[r].now - RATE_LIMIT_WINDOW
Count(entries, t) == Len(SelectSeq(entries, LAMBDA ts : ts = t))
Oldest(entries) ==
    CHOOSE t \in {entries[i] : i \in DOMAIN entries} :
        \A i \in DOMAIN entries : t <= entries[i]

\* Of the timestamps recorded for one client, at most FREE_TIER_LIMIT lie in
\* any one window [t, t + RATE_LIMIT_WINDOW): none when nothing is recorded,
\* and else it is enough to look at the windows that begin at a recorded one.
WindowBound ==
    \A c \in Clients :
        /\ admitted[c] = <<>> => 0 <= FREE_TIER_LIMIT
        /\ \A i \in DOMAIN admitted[c] :
              Len(SelectSeq(admitted[c],
                            LAMBDA ts : /\ admitted[c][i] <= ts
                                        /\ ts < admitted[c][i] + RATE_LIMIT_WINDOW))
                  <= FREE_TIER_LIMIT

\* C1: for a client not granted pro status, at most FREE_TIER_LIMIT requests
\* are admitted with timestamps inside one window; a request that finds
\* FREE_TIER_LIMIT admissions inside its window is rejected with 429; after an
\* admission the client's list holds at most FREE_TIER_LIMIT entries; and
\* get_remaining_requests is never negative.
C1_FreeTierLimit ==
    /\ WindowBound
    /\ \A r \in Reqs : Checked(r) /\ NotPro(r) =>
          /\ req[r].inWindow >= FREE_TIER_LIMIT =>
                ~req[r].allowed /\ req[r].pc = "done" /\ req[r].status = 429
          /\ req[r].allowed =>
                Len(Entries(req[r].client_id)) <= FREE_TIER_LIMIT
          /\ req[r].pc = "done" /\ req[r].status = 200 => req[r].remaining >= 0
    /\ \A c \in Clients :
          get_remaining_requests(Entries(c), FALSE, clock, FREE_TIER_LIMIT) >= 0

\* A client presenting a wrong key is rejected with 429 after FREE_TIER_LIMIT
\* admissions inside the window.
C1_Witness ==
    \E r \in Reqs :
        /\ req[r].pc = "done" /\ req[r].status = 429
        /\ req[r].x_api_key = "guess" /\ PRO_API_KEY = "pro-secret"
        /\ FREE_TIER_LIMIT >= 1 /\ req[r].inWindow = FREE_TIER_LIMIT

\* C2: a free client at the limit whose oldest timestamp ts has ts <= now - 24h
\* has that timestamp pruned and is admitted; while every recorded timestamp
\* is newer than now - 24h the client at the limit is rejected.
C2_SlidingWindow ==
    \A r \in Reqs :
        Checked(r) /\ ~req[r].is_pro /\ Len(req[r].pre) = FREE_TIER_LIMIT =>
          /\ req[r].pre # <<>> /\ Oldest(req[r].pre) <= CutoffOf(r) =>
                /\ req[r].allowed /\ req[r].status # 429
                /\ Len(req[r].kept) < Len(req[r].pre)
                /\ \A i \in DOMAIN Entries(req[r].client_id) :
                      Entries(req[r].client_id)[i] > CutoffOf(r)
          /\ (\A i \in DOMAIN req[r].pre : req[r].pre[i] > CutoffOf(r)) =>
                ~req[r].allowed /\ req[r].status = 429

\* A client at the limit is admitted at the instant its oldest timestamp is
\* exactly one window old.
C2_Witness ==
    \E r \in Reqs :
        /\ Checked(r) /\ ~req[r].is_pro /\ req[r].allowed
        /\ FREE_TIER_LIMIT >= 1 /\ Len(req[r].pre) = FREE_TIER_LIMIT
        /\ Oldest(req[r].pre) = CutoffOf(r)

\* C3: a request whose X-API-Key equals the non-empty PRO_API_KEY is admitted
\* without entering the quota code, never answered 429, reported as unlimited
\* (-1, header "unlimited"), and leaves rate_limit_store as it found it.
C3_ProUnlimited ==
    \A r \in Reqs : Started(r) /\ ProKey(r) =>
        /\ Checked(r) /\ req[r].allowed
        /\ req[r].status # 429
        /\ rate_limit_store = req[r].storeAtEntry
        /\ req[r].pc = "done" /\ req[r].status = 200 =>
              req[r].remaining = -1 /\ req[r].hRemaining = "unlimited"

\* A pro request succeeds from an address whose free quota is used up.
C3_Witness ==
    \E r \in Reqs :
        /\ ProKey(r) /\ req[r].pc = "done" /\ req[r].status = 200
        /\ FREE_TIER_LIMIT >= 1
        /\ Len(Entries(req[r].client_id)) = FREE_TIER_LIMIT
        /\ \A i \in DOMAIN Entries(req[r].client_id) :
              Entries(req[r].client_id)[i] > clock - RATE_LIMIT_WINDOW

\* Every recorded timestamp still inside the window is still in the store.
NoLostTimestamp ==
    \A c \in Clients : \A i \in DOMAIN admitted[c] :
        admitted[c][i] > clock - RATE_LIMIT_WINDOW =>
            Count(Entries(c), admitted[c][i]) >= Count(admitted[c], admitted[c][i])

\* C4: whatever the interleaving of the request coroutines, one coroutine at a
\* time is inside a handler, so that check_rate_limit's read, prune, count and
\* append are atomic: no window holds more than FREE_TIER_LIMIT admissions of
\* a client and no recorded timestamp is lost to another coroutine's prune.
C4_AtomicCheck ==
    /\ \A r, q \in Reqs : Started(r) /\ Started(q) => r = q
    /\ WindowBound
    /\ NoLostTimestamp

\* A coroutine is about to record the client's last free admission while
\* another request waits for the event loop.
C4_Witness ==
    \E r, q \in Reqs :
        /\ req[q].pc = "pending"
        /\ req[r].pc = "crl_append"
        /\ Len(Entries(req[r].client_id)) + 1 = FREE_TIER_LIMIT

\* C5: a rejection appends nothing: the client's record is its record before
\* the call minus the entries older than the window, and no other record
\* changes.
C5_RejectedNotRecorded ==
    \A r \in Reqs : req[r].pc = "done" /\ req[r].status = 429 =>
        /\ Entries(req[r].client_id) = Prune(req[r].pre, CutoffOf(r))
        /\ Len(Entries(req[r].client_id)) <= Len(req[r].pre)
        /\ \A c \in DOMAIN req[r].storeAtEntry \ {req[r].client_id} :
              Entries(c) = req[r].storeAtEntry[c]

\* A client with recorded admissions is rejected.
C5_Witness ==
    \E r \in Reqs :
        /\ req[r].pc = "done" /\ req[r].status = 429
        /\ req[r].pre # <<>>
        /\ Entries(req[r].client_id) = req[r].pre

\* C10: the timestamp of an admitted free request stays in the store whether
\* the render succeeds or raises (400); a request answered 429 never reached
\* the rendering code.
C10_ChargedAtAdmission ==
    \A r \in Reqs :
        /\ req[r].pc = "done" /\ ~req[r].is_pro /\ req[r].status \in {200, 400} =>
              /\ req[r].allowed
              /\ Entries(req[r].client_id) =
                    Append(Prune(req[r].pre, CutoffOf(r)), req[r].now)
        /\ req[r].pc = "done" /\ req[r].status = 429 => ~req[r].rendered
        /\ req[r].rendered => req[r].allowed

\* A request whose render raised used up the client's last free admission.
C10_Witness ==
    \E r \in Reqs :
        /\ req[r].pc = "done" /\ req[r].status = 400 /\ ~req[r].is_pro
        /\ FREE_TIER_LIMIT >= 1
        /\ Len(Entries(req[r].client_id)) = FREE_TIER_LIMIT

(***************************************************************************)
(* src/main.py: the request models, hex_to_rgb, generate_qr_image,         *)
(* generate_qr_svg and the three endpoints.                                *)
(***************************************************************************)
\* Bulk bodies of up to MaxBatch sampled items are enumerated (and the bodies
\* of MAX_ITEMS and MAX_ITEMS + 1 default items).
MaxBatch == 2

\* Field(max_length=4296), Field(ge=50, le=2000), Field(ge=0.1, le=0.4) in
\* hundredths, Field(max_length=50).
MAX_DATA_LENGTH == 4296
MIN_SIZE == 50
MAX_SIZE == 2000
MIN_LOGO_RATIO == 10
MAX_LOGO_RATIO == 40
MAX_ITEMS == 50
\* box_size=10, border=4
BOX_SIZE == 10
BORDER == 4

ErrorCorrection == {"L", "M", "Q", "H"}
ModuleStyle == {"square", "rounded", "circle"}
NoUrl == "<none>"
\* What pydantic's HttpUrl accepts, among the sampled logo_url values.
HttpUrls == {"https://logo.example/logo.png"}

\* Color strings, as their characters.
Black == <<"#", "0", "0", "0", "0", "0", "0">>
White == <<"#", "F", "F", "F", "F", "F", "F">>
WhiteLower == <<"#", "f", "f", "f", "f", "f", "f">>
Red == <<"#", "F", "F", "0", "0", "0", "0">>
RedNoHash == <<"F", "F", "0", "0", "0", "0">>
ShortWhite == <<"#", "F", "F", "F">>
RedWord == <<"r", "e", "d">>

HexLower == <<"0", "1", "2", "3", "4", "5", "6", "7", "8", "9",
              "a", "b", "c", "d", "e", "f">>
HexUpper == <<"0", "1", "2", "3", "4", "5", "6", "7", "8", "9",
              "A", "B", "C", "D", "E", "F">>
IsHexDigit(ch) == \E i \in 1..16 : HexLower[i] = ch \/ HexUpper[i] = ch
DigitValue(ch) == (CHOOSE i \in 1..16 : HexLower[i] = ch \/ HexUpper[i] = ch) - 1

\* str.upper() and str.lstrip('#')
UpperChar(ch) ==
    IF \E i \in 1..16 : HexLower[i] = ch
    THEN HexUpper[CHOOSE i \in 1..16 : HexLower[i] = ch] ELSE ch
Upper(str) == [i \in DOMAIN str |-> UpperChar(str[i])]

RECURSIVE LStripHash(_)
LStripHash(str) ==
    IF str # <<>> /\ str[1] = "#" THEN LStripHash(Tail(str)) ELSE str

\* hex_color[i:i+2], i counted from 0: shorter, or empty, past the end.
Slice2(str, i) ==
    SubSeq(str, i + 1, IF i + 2 <= Len(str) THEN i + 2 ELSE Len(str))

\* int(text, 16) of a text of at most two characters: an optional sign, then
\* hex digits, at least one.
Unsigned(text) ==
    IF text # <<>> /\ text[1] \in {"+", "-"} THEN Tail(text) ELSE text
ParsesBase16(text) ==
    /\ Unsigned(text) # <<>>
    /\ \A i \in DOMAIN Unsigned(text) : IsHexDigit(Unsigned(text)[i])
RECURSIVE Magnitude16(_)
Magnitude16(digits) ==
    IF digits = <<>> THEN 0
    ELSE 16 * Magnitude16(SubSeq(digits, 1, Len(digits) - 1))
           + DigitValue(digits[Len(digits)])
IntBase16(text) ==
    IF text # <<>> /\ text[1] = "-" THEN 0 - Magnitude16(Unsigned(text))
    ELSE Magnitude16(Unsigned(text))

\* hex_to_rgb: whether it returns (or int() raises ValueError), and what.
HexToRgbReturns(hex_color) ==
    \A i \in {0, 2, 4} : ParsesBase16(Slice2(LStripHash(hex_color), i))
hex_to_rgb(hex_color) ==
    [k \in 1..3 |-> IntBase16(Slice2(LStripHash(hex_color), 2 * (k - 1)))]

\* A request body item: QRRequest (SVGRequest reads data, size, foreground,
\* background and error_correction of it). The data is its length and
\* whether qrcode fits it into a version 40 symbol at the requested level.
DefaultQR ==
    [dataLen |-> 19, fits |-> TRUE, size |-> 300, foreground |-> Black,
     background |-> White, error_correction |-> "M", logo_url |-> NoUrl,
     logo_size_ratio |-> 25, module_style |-> "square"]

LogoQR == [DefaultQR EXCEPT !.logo_url = "https://logo.example/logo.png"]
RedWordQR == [DefaultQR EXCEPT !.foreground = RedWord]
OverflowQR == [DefaultQR EXCEPT !.dataLen = MAX_DATA_LENGTH, !.fits = FALSE,
                                !.error_correction = "H"]
TooSmallQR == [DefaultQR EXCEPT !.size = MIN_SIZE - 1]

ColorSamples == {Black, White, WhiteLower, Red, RedNoHash, ShortWhite, RedWord, <<>>}

QRSamples ==
    {DefaultQR, LogoQR, RedWordQR, OverflowQR, TooSmallQR}
    \cup {[DefaultQR EXCEPT !.dataLen = n, !.fits = f] :
             n \in {0, MAX_DATA_LENGTH, MAX_DATA_LENGTH + 1}, f \in BOOLEAN}
    \cup {[DefaultQR EXCEPT !.size = n] :
             n \in {MIN_SIZE, MAX_SIZE, MAX_SIZE + 1}}
    \cup {[DefaultQR EXCEPT !.foreground = c] : c \in ColorSamples}
    \cup {[DefaultQR EXCEPT !.background = c] : c \in ColorSamples}
    \cup {[DefaultQR EXCEPT !.error_correction = e] : e \in {"L", "H", "X"}}
    \cup {[DefaultQR EXCEPT !.module_style = m] : m \in {"rounded", "circle", "star"}}
    \cup {[LogoQR EXCEPT !.logo_size_ratio = n] :
             n \in {MIN_LOGO_RATIO - 1, MIN_LOGO_RATIO, MAX_LOGO_RATIO,
                    MAX_LOGO_RATIO + 1}}
    \cup {[LogoQR EXCEPT !.background = c] : c \in {Red, RedWord}}
    \cup {[LogoQR EXCEPT !.size = MAX_SIZE],
          [DefaultQR EXCEPT !.logo_url = "logo.png"]}

SVGSamples ==
    {DefaultQR, OverflowQR, TooSmallQR}
    \cup {[DefaultQR EXCEPT !.foreground = c] : c \in {Red, RedWord}}
    \cup {[DefaultQR EXCEPT !.background = c] : c \in ColorSamples}
    \cup {[DefaultQR EXCEPT !.foreground = Red, !.background = c] :
             c \in {Black, WhiteLower}}

BulkItems == {DefaultQR, LogoQR, RedWordQR, OverflowQR, TooSmallQR}

RECURSIVE Batches(_)
Batches(n) ==
    IF n = 0 THEN {<<>>}
    ELSE Batches(n - 1)
         \cup {Append(b, q) : b \in {x \in Batches(n - 1) : Len(x) = n - 1},
                              q \in BulkItems}

BulkSamples ==
    Batches(MaxBatch)
    \cup {[k \in 1..MAX_ITEMS |-> DefaultQR], [k \in 1..(MAX_ITEMS + 1) |-> DefaultQR],
          [k \in 1..MAX_ITEMS |-> IF k = MAX_ITEMS THEN RedWordQR ELSE DefaultQR]}

\* The declared bounds of QRRequest (lines 65-82), of SVGRequest (102-110)
\* and of BulkQRRequest (92-93), as pydantic enforces them.
QRRequestValid(q) ==
    /\ q.dataLen <= MAX_DATA_LENGTH
    /\ MIN_SIZE <= q.size /\ q.size <= MAX_SIZE
    /\ q.error_correction \in ErrorCorrection
    /\ q.logo_url \in {NoUrl} \cup HttpUrls
    /\ MIN_LOGO_RATIO <= q.logo_size_ratio /\ q.logo_size_ratio <= MAX_LOGO_RATIO
    /\ q.module_style \in ModuleStyle
SVGRequestValid(q) ==
    /\ q.dataLen <= MAX_DATA_LENGTH
    /\ MIN_SIZE <= q.size /\ q.size <= MAX_SIZE
    /\ q.error_correction \in ErrorCorrection
BulkQRRequestValid(items) ==
    /\ Len(items) <= MAX_ITEMS
    /\ \A k \in DOMAIN items : QRRequestValid(items[k])

BodyValid(endpoint, items) ==
    CASE endpoint = "/generate" -> QRRequestValid(items[1])
      [] endpoint = "/generate-svg" -> SVGRequestValid(items[1])
      [] endpoint = "/bulk" -> BulkQRRequestValid(items)

\* The side of the image make_image returns: (modules + 2 * border) *
\* box_size, for the version qrcode chose (1 for short data, else 40).
NativeSide(q) ==
    IF q.dataLen <= 19 THEN (21 + 2 * BORDER) * BOX_SIZE
    ELSE (177 + 2 * BORDER) * BOX_SIZE

NoImage == [mode |-> "", width |-> 0, height |-> 0, logo |-> FALSE]

\* The steps of the try block of lines 154-178, in order.
LogoSteps == <<"requests.get", "raise_for_status", "Image.open", "thumbnail",
               "logo.convert", "pil_img.convert", "paste">>

IdleCall ==
    [pc |-> "idle", endpoint |-> "", items |-> <<>>, i |-> 0, results |-> <<>>,
     fg_color |-> <<>>, bg_color |-> <<>>, img |-> NoImage, step |-> 0,
     svg |-> <<>>, status |-> 0,
     response |-> [success |-> FALSE, results |-> <<>>, count |-> 0,
                   size |-> 0, svg |-> <<>>],
     \* history: how many times qr.make ran for this request, and the step of
     \* the logo try block that raised ("" when none did)
     matrices |-> 0, logoError |-> ""]

QuotaVars ==
    <<FREE_TIER_LIMIT, PRO_API_KEY, clock, rate_limit_store, req, running,
      admitted>>

InitRender ==
    /\ FREE_TIER_LIMIT = 0
    /\ PRO_API_KEY = ""
    /\ clock = 0
    /\ rate_limit_store = <<>>
    /\ req = [r \in Reqs |-> Idle]
    /\ running = NoReq
    /\ admitted = [c \in Clients |-> <<>>]
    /\ call = IdleCall

Step(fields) == call' = fields /\ UNCHANGED QuotaVars
Item == call.items[call.i]

\* A request arrives.
Receive ==
    /\ call.pc = "idle"
    /\ \/ \E q \in QRSamples :
            Step([IdleCall EXCEPT !.pc = "validate", !.endpoint = "/generate",
                                  !.items = <<q>>])
       \/ \E q \in SVGSamples :
            Step([IdleCall EXCEPT !.pc = "validate", !.endpoint = "/generate-svg",
                                  !.items = <<q>>])
       \/ \E b \in BulkSamples :
            Step([IdleCall EXCEPT !.pc = "validate", !.endpoint = "/bulk",
                                  !.items = b])

\* FastAPI validates the body against the endpoint's model before it calls
\* the handler, and answers 422 itself when the body does not conform.
Validate ==
    /\ call.pc = "validate"
    /\ IF ~BodyValid(call.endpoint, call.items)
       THEN Step([call EXCEPT !.pc = "done", !.status = 422])
       ELSE CASE call.endpoint = "/generate" ->
                   Step([call EXCEPT !.pc = "qr.make", !.i = 1])
              [] call.endpoint = "/generate-svg" ->
                   Step([call EXCEPT !.pc = "svg.make", !.i = 1])
              [] call.endpoint = "/bulk" ->
                   \* results = []; for item in request.items:
                   IF call.items = <<>>
                   THEN Step([call EXCEPT !.pc = "bulk.respond"])
                   ELSE Step([call EXCEPT !.pc = "qr.make", !.i = 1])

\* except Exception as e: raise HTTPException(status_code=400, ...), of
\* generate_qr (258-259), generate_qr_svg_endpoint (277-278) and
\* generate_bulk_qr (305-306): the response carries the detail, and nothing
\* of the handler's locals (results stays what the loop had collected).
Raise400(c) == [c EXCEPT !.pc = "done", !.status = 400]

\* generate_qr_image, lines 127-134: qr.make(fit=True) builds the matrix, or
\* raises DataOverflowError.
QrMake ==
    /\ call.pc = "qr.make"
    /\ LET c == [call EXCEPT !.matrices = @ + 1, !.img = NoImage, !.step = 0,
                             !.fg_color = <<>>, !.bg_color = <<>>,
                             !.logoError = ""]
       IN  IF Item.fits
           THEN Step([c EXCEPT !.pc = "hex_to_rgb"])
           ELSE Step(Raise400(c))

\* generate_qr_image, lines 136-137.
Colors ==
    /\ call.pc = "hex_to_rgb"
    /\ IF HexToRgbReturns(Item.foreground) /\ HexToRgbReturns(Item.background)
       THEN Step([call EXCEPT !.pc = "make_image",
                              !.fg_color = hex_to_rgb(Item.foreground),
                              !.bg_color = hex_to_rgb(Item.background)])
       ELSE Step(Raise400(call))

\* generate_qr_image, lines 139-153.
MakeImage ==
    /\ call.pc = "make_image"
    /\ Step([call EXCEPT
                !.img = [mode |-> "RGB", width |-> NativeSide(Item),
                         height |-> NativeSide(Item), logo |-> FALSE],
                !.pc = IF Item.logo_url # NoUrl THEN "logo" ELSE "resize",
                !.step = IF Item.logo_url # NoUrl THEN 1 ELSE 0])

\* Faulty variant of OnLogoError: the exception of the logo step reaches the handler.
LogoErrorPropagates(c) == Raise400(c)

\* generate_qr_image, lines 179-180: except Exception: pass
OnLogoError(c) == [c EXCEPT !.pc = "resize"]

\* What a step of the try block does to pil_img when it does not raise.
AfterLogoStep(img, name) ==
    CASE name = "pil_img.convert" -> [img EXCEPT !.mode = "RGBA"]
      [] name = "paste" -> [img EXCEPT !.logo = TRUE]
      [] OTHER -> img

\* generate_qr_image, lines 154-180: one step of the try block; whether it
\* raises is up to the network and to the bytes the logo host returns.
Logo ==
    /\ call.pc = "logo"
    /\ \E raises \in BOOLEAN :
          IF raises
          THEN Step(OnLogoError([call EXCEPT !.logoError = LogoSteps[call.step]]))
          ELSE Step([call EXCEPT
                        !.img = AfterLogoStep(call.img, LogoSteps[call.step]),
                        !.step = @ + 1,
                        !.pc = IF call.step = Len(LogoSteps) THEN "resize"
                               ELSE "logo"])

\* generate_qr_image, line 183.
Resize ==
    /\ call.pc = "resize"
    /\ Step([call EXCEPT !.pc = "flatten", !.img.width = Item.size,
                         !.img.height = Item.size])

\* generate_qr_image, lines 186-194: flattened onto the background when it
\* has an alpha channel, and saved as PNG.
Flatten ==
    /\ call.pc = "flatten"
    /\ Step([call EXCEPT !.pc = "encoded",
                         !.img.mode = IF @ = "RGBA" THEN "RGB" ELSE @])

QRResponse(img, q) ==
    [success |-> TRUE, format |-> "png", size |-> q.size,
     width |-> img.width, height |-> img.height, mode |-> img.mode,
     logo |-> img.logo]

\* generate_qr, lines 250-257.
GenerateRespond ==
    /\ call.pc = "encoded"
    /\ call.endpoint = "/generate"
    /\ Step([call EXCEPT !.pc = "done", !.status = 200,
                         !.results = <<QRResponse(call.img, Item)>>,
                         !.response = [@ EXCEPT !.success = TRUE,
                                                !.size = Item.size]])

\* generate_bulk_qr, lines 290-298: the result is appended and the loop goes
\* on to the next item.
BulkAppend ==
    /\ call.pc = "encoded"
    /\ call.endpoint = "/bulk"
    /\ Step([call EXCEPT
                !.results = Append(@, QRResponse(call.img, Item)),
                !.i = @ + 1,
                !.pc = IF call.i < Len(call.items) THEN "qr.make"
                       ELSE "bulk.respond"])

\* generate_bulk_qr, lines 300-304.
BulkRespond ==
    /\ call.pc = "bulk.respond"
    /\ Step([call EXCEPT !.pc = "done", !.status = 200,
                         !.response = [@ EXCEPT !.success = TRUE,
                                                !.results = call.results,
                                                !.count = Len(call.results)]])

\* The response is sent.
Reset ==
    /\ call.pc = "done"
    /\ Step(IdleCall)

\* An SVG document, as its pieces: a '>' character, a fill="..." attribute
\* with its color, the text '<rect width="100%" height="100%" fill="..."/'
\* with its color, or any other run of text without a '>'.
Gt == [t |-> ">", v |-> <<>>]
Text(str) == [t |-> str, v |-> <<>>]
FillAttr(color) == [t |-> "fill=", v |-> color]
StyleFill(color) == [t |-> "fill:", v |-> color]
RectOpen(color) == [t |-> "<rect width=100% height=100% fill=/", v |-> color]
XmlDeclaration == Text("<?xml version='1.0' encoding='UTF-8'?")
SvgOpen == Text("<svg width height version viewBox xmlns")
BlackWord == <<"b", "l", "a", "c", "k">>

\* What img.save writes for SvgPathImage: the root element with its path,
\* after an XML declaration or without one (the library decides).
SvgBody ==
    <<SvgOpen, Gt, Text("<path d id "), FillAttr(Black),
      Text(" fill-opacity fill-rule stroke/"), Gt, Text("</svg"), Gt>>
LibraryDocuments == {SvgBody, <<XmlDeclaration, Gt>> \o SvgBody}

\* svg_string.replace('fill="#000000"', f'fill="{req.foreground}"')
\*           .replace('fill:black', f'fill:{req.foreground}')
ReplaceFill(doc, foreground) ==
    [k \in DOMAIN doc |->
        IF doc[k] = FillAttr(Black) THEN FillAttr(foreground)
        ELSE IF doc[k] = StyleFill(BlackWord) THEN StyleFill(foreground)
        ELSE doc[k]]

\* svg_string.split('>', 1)
SplitFirstGt(doc) ==
    IF \E k \in DOMAIN doc : doc[k] = Gt
    THEN LET k == CHOOSE k \in DOMAIN doc :
                     doc[k] = Gt /\ \A j \in 1..(k - 1) : doc[j] # Gt
         IN  <<SubSeq(doc, 1, k - 1), SubSeq(doc, k + 1, Len(doc))>>
    ELSE <<doc>>

\* generate_qr_svg, lines 222-226.
AddBackground(doc, background) ==
    IF Upper(background) # White
    THEN LET svg_parts == SplitFirstGt(doc)
         IN  IF Len(svg_parts) = 2
             THEN svg_parts[1] \o <<Gt, RectOpen(background), Gt>> \o svg_parts[2]
             ELSE doc
    ELSE doc

\* generate_qr_svg, lines 201-208.
SvgMake ==
    /\ call.pc = "svg.make"
    /\ IF Item.fits
       THEN Step([call EXCEPT !.pc = "svg.save", !.matrices = @ + 1])
       ELSE Step(Raise400([call EXCEPT !.matrices = @ + 1]))

\* generate_qr_svg, lines 210-215.
SvgSave ==
    /\ call.pc = "svg.save"
    /\ \E doc \in LibraryDocuments :
          Step([call EXCEPT !.pc = "svg.colors", !.svg = doc])

\* generate_qr_svg, lines 218-219.
SvgColorize ==
    /\ call.pc = "svg.colors"
    /\ Step([call EXCEPT !.pc = "svg.background",
                         !.svg = ReplaceFill(@, Item.foreground)])

\* generate_qr_svg, lines 222-228.
SvgBackground ==
    /\ call.pc = "svg.background"
    /\ Step([call EXCEPT !.pc = "svg.respond",
                         !.svg = AddBackground(@, Item.background)])

\* generate_qr_svg_endpoint, lines 272-276.
SvgRespond ==
    /\ call.pc = "svg.respond"
    /\ Step([call EXCEPT !.pc = "done", !.status = 200,
                         !.response = [@ EXCEPT !.success = TRUE,
                                                !.svg = call.svg]])

NextRender ==
    \/ Receive
    \/ Validate
    \/ QrMake
    \/ Colors
    \/ MakeImage
    \/ Logo
    \/ Resize
    \/ Flatten
    \/ GenerateRespond
    \/ BulkAppend
    \/ BulkRespond
    \/ SvgMake
    \/ SvgSave
    \/ SvgColorize
    \/ SvgBackground
    \/ SvgRespond
    \/ Reset

SpecRender == InitRender /\ [][NextRender]_vars

(***************************************************************************)
(* Properties of src/main.py, under SpecRender.                            *)
(***************************************************************************)
\* generate_qr_image returns for the item when nothing but the logo step can
\* fail: the data fits and both colors convert.
RendersWithoutLogo(q) ==
    q.fits /\ HexToRgbReturns(q.foreground) /\ HexToRgbReturns(q.background)

\* '#' and six hex digits.
WellFormedHex(color) ==
    /\ Len(color) = 7
    /\ color[1] = "#"
    /\ \A k \in 2..7 : IsHexDigit(color[k])

\* C6 (as claimed): a /bulk request that passes validation, so of at most 50
\* items, is answered with exactly len(items) outcomes in input order, each
\* the outcome of its own item, whether other items fail or not.
C6_Claim ==
    call.pc = "done" /\ call.endpoint = "/bulk"
        /\ BulkQRRequestValid(call.items) =>
            /\ Len(call.response.results) = Len(call.items)
            /\ \A k \in DOMAIN call.response.results :
                  /\ call.response.results[k].size = call.items[k].size
                  /\ call.response.results[k].success
                        = RendersWithoutLogo(call.items[k])

\* A request violates a declared bound of the claim.
ViolatesBound(q) ==
    \/ q.dataLen < 1 \/ q.dataLen > MAX_DATA_LENGTH
    \/ q.size < MIN_SIZE \/ q.size > MAX_SIZE
    \/ q.logo_size_ratio < MIN_LOGO_RATIO \/ q.logo_size_ratio > MAX_LOGO_RATIO
    \/ ~WellFormedHex(q.foreground) \/ ~WellFormedHex(q.background)

\* C7 (as claimed): a request that violates a declared bound is rejected with
\* a validation error and qr.make never runs for it, nor for an earlier item
\* of its batch.
C7_Claim ==
    /\ call.pc # "idle"
    /\ \/ Len(call.items) > MAX_ITEMS
       \/ \E k \in DOMAIN call.items : ViolatesBound(call.items[k])
    => /\ call.matrices = 0
       /\ call.pc = "done" => call.status \in {400, 422}

\* C8: a /generate request with a logo_url that renders without the logo is
\* answered success=true with an image of size x size, whichever step of
\* the logo block raised; and no request is answered 400 after a logo step
\* raised.
C8_LogoFailureSwallowed ==
    /\ call.pc = "done" /\ call.endpoint = "/generate" /\ call.status # 422
          /\ call.items[1].logo_url # NoUrl
          /\ RendersWithoutLogo(call.items[1]) =>
              /\ call.status = 200 /\ call.response.success
              /\ call.response.size = call.items[1].size
              /\ call.results[1].width = call.items[1].size
              /\ call.results[1].height = call.items[1].size
              /\ call.results[1].mode = "RGB"
    /\ call.pc = "done" /\ call.status = 400 => call.logoError = ""

\* The paste of the logo raised, after pil_img was converted to RGBA, and the
\* request is answered with the image without the logo.
C8_Witness ==
    /\ call.pc = "done" /\ call.endpoint = "/generate" /\ call.status = 200
    /\ call.logoError = "paste"
    /\ call.results[1].width = call.items[1].size
    /\ ~call.results[1].logo

\* C9 (as claimed): no <rect> for a white background; for any other
\* background exactly one, directly after the '>' that ends the opening
\* <svg ...> tag.
C9_Claim ==
    call.pc = "done" /\ call.endpoint = "/generate-svg" /\ call.status = 200 =>
        LET out == call.response.svg
            rects == {k \in DOMAIN out : out[k].t = RectOpen(<<>>).t}
        IN  IF Upper(call.items[1].background) = White
            THEN rects = {}
            ELSE /\ Cardinality(rects) = 1
                 /\ \A k \in rects :
                       /\ out[k] = RectOpen(call.items[1].background)
                       /\ k >= 3 /\ out[k - 1] = Gt /\ out[k - 2] = SvgOpen

====
